---- MODULE Spec2Model ----
(***************************************************************************)
(* A model of src/python/pants/engine/scheduler.py: the Scheduler and      *)
(* SchedulerSession front-end of the pants engine.  The native engine is   *)
(* the environment: every answer it gives (the result of adding a root,    *)
(* the raw root nodes of an execution, the result of a visualization, a    *)
(* raised fault) is a nondeterministic input of the action that asks it.   *)
(***************************************************************************)
EXTENDS Integers, Sequences, FiniteSets, TLC

\* Longest products list and longest subjects list handed to a request.
MaxLen == 3
\* Most roots (subjects times products) of one request.
MaxRoots == 4

Subjects == {"s1", "s2"}
Products == {"p1", "p2"}

\* Python lists of at most MaxLen elements of S (order and repeats matter).
Lists(S) == UNION {[1..n -> S] : n \in 0..MaxLen}

\* The (products, subjects) arguments of a request.
RequestArgs ==
  {a \in Lists(Products) \X Lists(Subjects) : Len(a[1]) * Len(a[2]) <= MaxRoots}

\* Python's None and a set reference, as a sequence of length 0 or 1.
None == <<>>
Some(x) == <<x>>
IsNone(o) == Len(o) = 0
IsSome(o) == Len(o) = 1
The(o) == o[1]

Min(a, b) == IF a <= b THEN a ELSE b

(***************************************************************************)
(* Python objects crossing the native boundary.                            *)
(***************************************************************************)

\* The product value the engine computes for the root (s, p).
Value(s, p) == [kind |-> "value", subject |-> s, product |-> p]

\* An exception object: class name, identity, str() text, and (for the
\* ExecutionError built by products_request) the lines under its header.
Exception(cls, id, text, lines) ==
  [kind |-> "exc", cls |-> cls, id |-> id, text |-> text, lines |-> lines]

\* The error objects the engine's tasks can have thrown.  e1 and e3 are two
\* objects of the same class and text.
EngineErrors ==
  { Exception("ValueError", "e1", "boom", <<>>),
    Exception("KeyError", "e2", "missing", <<>>),
    Exception("ValueError", "e3", "boom", <<>>) }

EngineError(id) == CHOOSE e \in EngineErrors : e.id = id

\* native.context.to_value / from_value: an object and its engine handle.
ToValue(obj) == [handle |-> obj]
FromValue(val) == val.handle

\* Exactly(t), the type constraint a type stands for, and the constraints
\* of the product types.
Exactly(t) == "Exactly(" \o t \o ")"
Constraints == {Exactly(t) : t \in Products}

\* selectors.constraint_for: a constraint is kept, a type becomes Exactly(type).
ConstraintFor(type_or_constraint) ==
  IF type_or_constraint \in Constraints
  THEN type_or_constraint
  ELSE Exactly(type_or_constraint)

\* The product type a constraint of the engine admits.
TypeOf(constraint) == CHOOSE t \in Products : Exactly(t) = constraint

\* native.context.to_key and Scheduler._to_constraint.
ToKey(obj) == [key |-> obj]
ToConstraint(type_or_constraint) ==
  [constraint |-> ToKey(ConstraintFor(type_or_constraint))]

\* A PyResult of the engine.
PyResult(is_throw, obj) == [is_throw |-> is_throw, value |-> ToValue(obj)]

\* One call of a native library function, as the call log records it.
Call(fn, arg) == [fn |-> fn, arg |-> arg]

\* pants.engine.nodes.Return and Throw.
Return(value) == [type |-> "Return", value |-> value]
Throw(exc) == [type |-> "Throw", exc |-> exc]

\* ExecutionRequest(roots, native).
ExecutionRequest(roots, native) == [roots |-> roots, native |-> native]

VARIABLES
  include_trace_on_error, \* Scheduler.include_trace_on_error
  visualize_to_dir,       \* native.visualize_to_dir is not None
  run_count,              \* SchedulerSession._run_count
  op,                     \* the API call the session has served ("init": none)
  products,               \* its products argument
  subjects,               \* its subjects argument
  request,                \* the ExecutionRequest it built, if any
  engine,                 \* the engine's answer to the execution, if it was asked
  result,                 \* the ExecutionResult execute returned, if any
  ret,                    \* the value the call returned, if it returned
  raised,                 \* the exception the call raised, if it raised
  calls,                  \* the native library calls it made, in order
  visualized,             \* the names of the visualizations asked of the engine so far
  direct_filenames,       \* the argument of invalidate_files
  graph,                  \* the paths whose nodes the engine's graph holds
  rule_index,             \* the rules argument of Scheduler.__init__, as rule_index.rules
  validate,               \* the validate argument of Scheduler.__init__
  ruleset_valid,          \* whether the engine's validator accepts the rules
  pc,                     \* each thread's position in the call it is making
  local,                  \* each thread's local variables
  raw_heap                \* the raw result each thread's scheduler_execute allocated

\* The variables that only invalidate_files and only Scheduler.__init__ use.
invalidation_vars == <<direct_filenames, graph>>
construction_vars == <<rule_index, validate, ruleset_valid>>

\* The variables that only calls made from several threads use.
thread_vars == <<pc, local, raw_heap>>

vars == <<include_trace_on_error, visualize_to_dir, run_count, op, products,
          subjects, request, engine, result, ret, raised, calls, visualized,
          invalidation_vars, construction_vars, thread_vars>>

\* The threads that may call into one session.
Threads == {"t1", "t2"}

\* The locals of a thread that is in no call, and the heap before any
\* scheduler_execute of the thread.
IdleLocals ==
  [call |-> "none", raw_roots |-> None, k |-> 0, roots |-> <<>>, name |-> None,
   loaded |-> None, raised |-> None, ret |-> None, calls |-> <<>>]
NoRawResult == [obtained |-> 0, live |-> FALSE, destroyed |-> 0, stale_reads |-> 0]

\* No thread is in a call.
ThreadsIdle ==
  /\ pc = [t \in Threads |-> "idle"]
  /\ local = [t \in Threads |-> IdleLocals]
  /\ raw_heap = [t \in Threads |-> NoRawResult]

(***************************************************************************)
(* SchedulerSession.execution_request                                      *)
(***************************************************************************)

\* tuple((s, p) for p in products for s in subjects): the loops swapped.
RootsProductMajor(prods, subjs) ==
  [k \in 1..(Len(prods) * Len(subjs)) |->
     <<subjs[((k - 1) % Len(subjs)) + 1], prods[((k - 1) \div Len(subjs)) + 1]>>]

\* The inner loop of line 426: (s, p) for p in products.
RootsOfSubject(s, prods) == [j \in 1..Len(prods) |-> <<s, prods[j]>>]

RECURSIVE RootsFrom(_, _)
RootsFrom(prods, subjs) ==
  IF subjs = <<>> THEN <<>>
  ELSE RootsOfSubject(Head(subjs), prods) \o RootsFrom(prods, Tail(subjs))

\* Line 426: tuple((s, p) for s in subjects for p in products).
Roots(prods, subjs) == RootsFrom(prods, subjs)

\* The engine's error for a root with no resolvable rule path; it names the
\* root it could not resolve.
NoRuleError(root) ==
  Exception("Exception", "no_rule", "No installed rules can satisfy", <<root>>)

\* Scheduler._raise_or_return.
RaiseOrReturn(pyresult) ==
  IF pyresult.is_throw
  THEN [raised |-> Some(FromValue(pyresult.value)), value |-> None]
  ELSE [raised |-> None, value |-> Some(FromValue(pyresult.value))]

\* Scheduler.add_root_selection: the native call with the subject's key and
\* the product's constraint, then _raise_or_return on the engine's answer.
AddRootSelection(native, subject, product, answer) ==
  LET root == [subject |-> ToKey(subject), product |-> ToConstraint(product)]
      res  == RaiseOrReturn(answer)
  IN  [raised |-> res.raised,
       native |-> IF answer.is_throw THEN native ELSE Append(native, root),
       call   |-> Call("execution_add_root_select", root)]

\* The loop goes on after a refused root and raises the first error at its end.
AddRootsKeepGoing(roots, answers, k, native, log) ==
  LET adds   == [j \in 1..Len(roots) |->
                   AddRootSelection(<<>>, roots[j][1], roots[j][2], answers[j])]
      failed == {j \in 1..Len(roots) : IsSome(adds[j].raised)}
      first  == CHOOSE j \in failed : \A i \in failed : j <= i
      taken  == SelectSeq(adds, LAMBDA a : IsNone(a.raised))
  IN  [raised |-> IF failed = {} THEN None ELSE adds[first].raised,
       native |-> native \o [j \in 1..Len(taken) |-> taken[j].native[1]],
       calls  |-> log \o [j \in 1..Len(roots) |-> adds[j].call]]

\* Lines 428-429: the loop over the roots; answers[k] is the engine's answer
\* to the k-th add.  The loop ends at the first answer that is a throw.
RECURSIVE AddRoots(_, _, _, _, _)
AddRoots(roots, answers, k, native, log) ==
  IF k > Len(roots) THEN [raised |-> None, native |-> native, calls |-> log]
  ELSE LET a == AddRootSelection(native, roots[k][1], roots[k][2], answers[k])
       IN  IF IsSome(a.raised)
           THEN [raised |-> a.raised, native |-> a.native, calls |-> Append(log, a.call)]
           ELSE AddRoots(roots, answers, k + 1, a.native, Append(log, a.call))

\* SchedulerSession.execution_request(products, subjects).
ExecutionRequestRun(prods, subjs, answers) ==
  LET roots == Roots(prods, subjs)
      added == AddRoots(roots, answers, 1, <<>>,
                        <<Call("new_execution_request", <<>>)>>)
  IN  [raised  |-> added.raised,
       request |-> IF IsSome(added.raised) THEN None
                   ELSE Some(ExecutionRequest(roots, added.native)),
       calls   |-> added.calls]

\* The engine's answers to the adds of n roots: all accepted, or the first
\* occurrence of one root refused (a root is refused whenever it is added).
AddAnswers(roots) ==
  { [k \in 1..Len(roots) |->
       IF k = failAt THEN PyResult(TRUE, NoRuleError(roots[k])) ELSE PyResult(FALSE, None)]
    : failAt \in {0} \cup {i \in 1..Len(roots) : \A j \in 1..(i - 1) : roots[j] # roots[i]} }

(***************************************************************************)
(* Scheduler._run_and_return_roots, SchedulerSession.schedule and execute  *)
(***************************************************************************)

\* A raw root node of the engine: its state tag and the handle of its value.
RawNode(tag, obj) == [state_tag |-> tag, state_value |-> ToValue(obj)]

\* The raw nodes the engine may report for one root of a native request: the
\* root's value under tag 1, a task's error under tags 2, 3 and 4, and an
\* empty node under tag 0.
RawNodesOf(root) ==
  { RawNode(1, Value(root.subject.key, TypeOf(root.product.constraint.key))),
    RawNode(2, EngineError("e1")),
    RawNode(3, EngineError("e2")),
    RawNode(4, EngineError("e3")),
    RawNode(0, None) }

\* Faults the engine may raise out of scheduler_execute.
FatalError == Exception("TaskError", "fatal", "engine failed", <<>>)
OtherFault == Exception("Exception", "fault", "interrupted", <<>>)

\* The engine's error when it cannot write a visualization.
VisualizeError == Exception("Exception", "viz", "cannot write graph", <<>>)

\* The engine's answers to one execution of a native request: a fault, or
\* one raw node per root (the same node for the same root), followed by the
\* answer it would give to a visualization.
ExecuteAnswers(native, visualizing) ==
  LET rootset == {native[k] : k \in 1..Len(native)}
      graphs  == {g \in [rootset -> UNION {RawNodesOf(r) : r \in rootset}] :
                    \A r \in rootset : g[r] \in RawNodesOf(r)}
      vizs    == IF visualizing
                 THEN {PyResult(FALSE, None), PyResult(TRUE, VisualizeError)}
                 ELSE {PyResult(FALSE, None)}
  IN  { [fault |-> Some(f), nodes |-> <<>>, viz |-> PyResult(FALSE, None)]
        : f \in {FatalError, OtherFault} }
      \cup
      { [fault |-> None, nodes |-> [k \in 1..Len(native) |-> g[native[k]]], viz |-> v]
        : g \in graphs, v \in vizs }

UnrecognizedState(raw_root) ==
  Exception("ValueError", "unrecognized", "Unrecognized State type",
            <<ToString(raw_root.state_tag)>>)

\* elif raw_root.state_tag in (2, 3): tag 4 left out of the Throw tags.
RECURSIVE ConvertRootsTwoThrowTags(_, _, _)
ConvertRootsTwoThrowTags(nodes, k, roots) ==
  IF k > Len(nodes) THEN [raised |-> None, roots |-> roots]
  ELSE LET raw_root == nodes[k]
       IN  IF raw_root.state_tag = 1
           THEN ConvertRootsTwoThrowTags(nodes, k + 1,
                             Append(roots, Return(FromValue(raw_root.state_value))))
           ELSE IF raw_root.state_tag \in {2, 3}
           THEN ConvertRootsTwoThrowTags(nodes, k + 1,
                             Append(roots, Throw(FromValue(raw_root.state_value))))
           ELSE [raised |-> Some(UnrecognizedState(raw_root)), roots |-> roots]

\* Lines 322-330: the loop over the unpacked raw roots.
RECURSIVE ConvertRoots(_, _, _)
ConvertRoots(nodes, k, roots) ==
  IF k > Len(nodes) THEN [raised |-> None, roots |-> roots]
  ELSE LET raw_root == nodes[k]
       IN  IF raw_root.state_tag = 1
           THEN ConvertRoots(nodes, k + 1,
                             Append(roots, Return(FromValue(raw_root.state_value))))
           ELSE IF raw_root.state_tag \in {2, 3, 4}
           THEN ConvertRoots(nodes, k + 1,
                             Append(roots, Throw(FromValue(raw_root.state_value))))
           ELSE [raised |-> Some(UnrecognizedState(raw_root)), roots |-> roots]

\* Scheduler._run_and_return_roots.
RunAndReturnRoots(native, eng) ==
  IF IsSome(eng.fault)
  THEN [raised |-> eng.fault, roots |-> <<>>,
        calls |-> <<Call("scheduler_execute", native)>>]
  ELSE LET c == ConvertRoots(eng.nodes, 1, <<>>)
       IN  [raised |-> c.raised, roots |-> c.roots,
            calls |-> <<Call("scheduler_execute", native),
                        Call("nodes_destroy", eng.nodes)>>]

\* 'graph.{0:03d}.dot'.format(n).
Format03d(n) ==
  IF n < 10 THEN "00" \o ToString(n)
  ELSE IF n < 100 THEN "0" \o ToString(n) ELSE ToString(n)
GraphName(n) == "graph." \o Format03d(n) \o ".dot"

\* The names of the visualizations a sequence of native calls asked for.
Visualizations(log) ==
  LET asked == SelectSeq(log, LAMBDA c : c.fn = "graph_visualize")
  IN  [k \in 1..Len(asked) |-> asked[k].arg]

\* _maybe_visualize with lines 450 and 451 swapped: the name is formatted
\* after the increment.
MaybeVisualizeNamedAfterIncrement(count, visualizing, answer) ==
  IF visualizing
  THEN [raised    |-> RaiseOrReturn(answer).raised,
        run_count |-> count + 1,
        calls     |-> <<Call("graph_visualize", GraphName(count + 1))>>]
  ELSE [raised |-> None, run_count |-> count, calls |-> <<>>]

\* SchedulerSession._maybe_visualize.
MaybeVisualize(count, visualizing, answer) ==
  IF visualizing
  THEN [raised    |-> RaiseOrReturn(answer).raised,
        run_count |-> count + 1,
        calls     |-> <<Call("graph_visualize", GraphName(count))>>]
  ELSE [raised |-> None, run_count |-> count, calls |-> <<>>]

\* zip(roots, reversed(outcomes)): the outcomes paired in the opposite order.
ZipOutcomesReversed(a, b) ==
  [k \in 1..Min(Len(a), Len(b)) |-> <<a[k], b[Len(b) + 1 - k]>>]

\* Python 2's zip: as long as the shorter of the two.
Zip(a, b) == [k \in 1..Min(Len(a), Len(b)) |-> <<a[k], b[k]>>]

\* SchedulerSession.schedule.
ScheduleRun(req, eng, count, visualizing) ==
  LET r == RunAndReturnRoots(req.native, eng)
  IN  IF IsSome(r.raised)
      THEN [raised |-> r.raised, roots |-> None, run_count |-> count, calls |-> r.calls]
      ELSE LET v == MaybeVisualize(count, visualizing, eng.viz)
           IN  IF IsSome(v.raised)
               THEN [raised |-> v.raised, roots |-> None, run_count |-> v.run_count,
                     calls |-> r.calls \o v.calls]
               ELSE [raised |-> None, roots |-> Some(Zip(req.roots, r.roots)),
                     run_count |-> v.run_count,
                     calls |-> r.calls \o v.calls \o <<Call("graph_len", <<>>)>>]

\* cls(error=error, root_products=[]): a failure that also holds a list.
FailureWithProducts(error) == [error |-> Some(error), root_products |-> Some(<<>>)]

\* ExecutionResult.finished and ExecutionResult.failure.
Finished(root_products) == [error |-> None, root_products |-> Some(root_products)]
Failure(error) == [error |-> Some(error), root_products |-> None]

\* No except clause: the error of schedule is never caught.
CatchesNothing(exc) == FALSE

\* except Exception: every error of schedule is turned into a failure.
CatchesEverything(exc) == TRUE

\* Line 489: except TaskError.
Catches(exc) == exc.cls = "TaskError"

\* SchedulerSession.execute.
ExecuteRun(req, eng, count, visualizing) ==
  LET s == ScheduleRun(req, eng, count, visualizing)
  IN  IF IsNone(s.raised)
      THEN [raised |-> None, result |-> Some(Finished(The(s.roots))),
            run_count |-> s.run_count, calls |-> s.calls]
      ELSE IF Catches(The(s.raised))
      THEN [raised |-> None, result |-> Some(Failure(The(s.raised))),
            run_count |-> s.run_count, calls |-> s.calls]
      ELSE [raised |-> s.raised, result |-> None,
            run_count |-> s.run_count, calls |-> s.calls]

(***************************************************************************)
(* SchedulerSession.products_request and product_request                   *)
(***************************************************************************)

\* The test of result.error left out.
ErrorIgnored(res) == FALSE

\* Line 501: if result.error (an exception object is truthy, None is not).
HasError(res) == IsSome(res.error)

\* type(state) is not Throw: Return left out of the accepted types.
UnknownStateTypesButThrow(root_products) ==
  LET unknown == SelectSeq(root_products, LAMBDA rp : rp[2].type # "Throw")
  IN  [k \in 1..Len(unknown) |-> unknown[k][2].type]

\* Lines 505-507: the types of the states that are neither Throw nor Return.
UnknownStateTypes(root_products) ==
  LET unknown == SelectSeq(root_products, LAMBDA rp : rp[2].type \notin {"Throw", "Return"})
  IN  [k \in 1..Len(unknown) |-> unknown[k][2].type]

\* State.raise_unrecognized.
UnrecognizedStateTypes(types) ==
  Exception("ValueError", "unrecognized_types", "Unrecognized Node State(s)", types)

\* Line 513: the states of the roots whose type is Throw, in root order.
ThrowRootStates(root_products) ==
  LET throws == SelectSeq(root_products, LAMBDA rp : rp[2].type = "Throw")
  IN  [k \in 1..Len(throws) |-> throws[k][2]]

\* The trace of nothing but the first root of the request.
GraphTraceFirstRoot(native) ==
  [k \in 1..Min(1, Len(native)) |-> [trace_of |-> native[k]]]

\* Scheduler.graph_trace: the lines the engine writes for a native request,
\* one per root of the request it is handed.
GraphTrace(native) == [k \in 1..Len(native) |-> [trace_of |-> native[k]]]

\* Lines 516-517: the ExecutionError that carries the trace of the request.
TraceError(req) ==
  Exception("ExecutionError", "new", "Received unexpected Throw state(s):",
            GraphTrace(req.native))

\* Line 519: set(t.exc for t in throw_root_states); exceptions hash and
\* compare by identity.
UniqueExceptions(throw_root_states) ==
  {throw_root_states[k].exc : k \in 1..Len(throw_root_states)}

\* The orders in which a Python set may be iterated.
IterationOrders(S) ==
  {q \in [1..Cardinality(S) -> S] : \A i, j \in 1..Cardinality(S) : i # j => q[i] # q[j]}

\* '{}: {}'.format(type(state).__name__, str(state)) of the Throw state
\* rather than of its exception.
ErrorLineOfThrow(exc) == [type_name |-> "Throw", str |-> "Throw(" \o exc.text \o ")"]

\* Line 524: '{}: {}'.format(type(t).__name__, str(t)).
ErrorLine(exc) == [type_name |-> exc.cls, str |-> exc.text]

\* for t in throw_root_states: the exception of every Throw state, repeats
\* kept.
ExceptionOfEveryThrow(throw_root_states, order) ==
  [k \in 1..Len(throw_root_states) |-> throw_root_states[k].exc]

\* Line 525: for t in unique_exceptions, the members of the set of line 519
\* in the order the set yields them.
ForUniqueExceptions(throw_root_states, order) ==
  [k \in 1..Cardinality(UniqueExceptions(throw_root_states)) |-> order[k]]

\* Lines 523-525: the ExecutionError that lists the given exceptions.
MultipleExceptionsError(exceptions) ==
  Exception("ExecutionError", "new", "Multiple exceptions encountered:",
            [k \in 1..Len(exceptions) |-> ErrorLine(exceptions[k])])

\* raise ExecutionError(str(exc)): the single error wrapped.
WrappedSingleError(throw_root_states) ==
  Exception("ExecutionError", "new", throw_root_states[1].exc.text, <<>>)

\* Line 521: raise throw_root_states[0].exc.
SingleError(throw_root_states) == throw_root_states[1].exc

\* Line 531: product_results[product].append(state.value), on a
\* defaultdict(list).
AppendValue(product_results, product, value) ==
  [q \in DOMAIN product_results \cup {product} |->
     IF q = product
     THEN (IF q \in DOMAIN product_results THEN product_results[q] ELSE <<>>) \o <<value>>
     ELSE product_results[q]]

\* Lines 529-531: the loop over the root products.
RECURSIVE ProductResults(_, _, _)
ProductResults(root_products, k, product_results) ==
  IF k > Len(root_products) THEN product_results
  ELSE ProductResults(root_products, k + 1,
                      AppendValue(product_results, root_products[k][1][2],
                                  root_products[k][2].value))

\* The empty defaultdict(list).
EmptyDict == [q \in {} |-> <<>>]

\* defaultdict.__getitem__: the list of a key, the empty list if it has none.
GetItem(product_results, product) ==
  IF product \in DOMAIN product_results THEN product_results[product] ELSE <<>>

\* for ... in None.
NotIterable == Exception("TypeError", "not_iterable", "'NoneType' object is not iterable", <<>>)

\* Lines 511-525: what is raised for a non-empty tuple of Throw states.
ThrowHandling(req, throw_root_states, trace_on_error, order) ==
  IF trace_on_error
  THEN [raised |-> Some(TraceError(req)),
        calls  |-> <<Call("graph_trace", req.native)>>]
  ELSE IF Cardinality(UniqueExceptions(throw_root_states)) = 1
  THEN [raised |-> Some(SingleError(throw_root_states)), calls |-> <<>>]
  ELSE [raised |-> Some(MultipleExceptionsError(
                          ForUniqueExceptions(throw_root_states, order))),
        calls  |-> <<>>]

\* Lines 501-532: products_request once execute has returned `res`.  `order`
\* is the order in which the set of unique exceptions is iterated.
HandleResult(req, res, trace_on_error, order) ==
  IF HasError(res)
  THEN [raised |-> res.error, ret |-> None, calls |-> <<>>]
  ELSE IF IsNone(res.root_products)
  THEN [raised |-> Some(NotIterable), ret |-> None, calls |-> <<>>]
  ELSE LET root_products == The(res.root_products)
           unknown == UnknownStateTypes(root_products)
           throw_root_states == ThrowRootStates(root_products)
       IN  IF Len(unknown) > 0
           THEN [raised |-> Some(UnrecognizedStateTypes(unknown)), ret |-> None,
                 calls |-> <<>>]
           ELSE IF Len(throw_root_states) > 0
           THEN LET t == ThrowHandling(req, throw_root_states, trace_on_error, order)
                IN  [raised |-> t.raised, ret |-> None, calls |-> t.calls]
           ELSE [raised |-> None,
                 ret    |-> Some(ProductResults(root_products, 1, EmptyDict)),
                 calls  |-> <<>>]

\* The exceptions of the Throw states of an execute outcome (none when
\* execute raised or returned a failure).
ThrownBy(ex) ==
  IF IsSome(ex.result) /\ IsSome(The(ex.result).root_products)
  THEN UniqueExceptions(ThrowRootStates(The(The(ex.result).root_products)))
  ELSE {}

Init ==
  /\ include_trace_on_error \in BOOLEAN
  /\ visualize_to_dir \in BOOLEAN
  /\ run_count = 0
  /\ op = "init"
  /\ products = <<>>
  /\ subjects = <<>>
  /\ request = None
  /\ engine = None
  /\ result = None
  /\ ret = None
  /\ raised = None
  /\ calls = <<>>
  /\ visualized = <<>>
  /\ direct_filenames = <<>>
  /\ graph = {}
  /\ rule_index = <<>>
  /\ validate = TRUE
  /\ ruleset_valid = TRUE
  /\ ThreadsIdle

\* A caller asks the session for an ExecutionRequest.
ExecutionRequestCall ==
  /\ op = "init"
  /\ \E args \in RequestArgs :
       \E answers \in AddAnswers(Roots(args[1], args[2])) :
         LET r == ExecutionRequestRun(args[1], args[2], answers)
         IN  /\ op' = "execution_request"
             /\ products' = args[1]
             /\ subjects' = args[2]
             /\ request' = r.request
             /\ ret' = r.request
             /\ raised' = r.raised
             /\ calls' = r.calls
  /\ UNCHANGED <<include_trace_on_error, visualize_to_dir, run_count, engine, result,
                 visualized, invalidation_vars, construction_vars, thread_vars>>

\* A caller executes the ExecutionRequest it holds.
ExecuteCall ==
  /\ op = "execution_request"
  /\ IsSome(request)
  /\ \E eng \in ExecuteAnswers(The(request).native, visualize_to_dir) :
       LET r == ExecuteRun(The(request), eng, run_count, visualize_to_dir)
       IN  /\ op' = "execute"
           /\ engine' = Some(eng)
           /\ result' = r.result
           /\ ret' = r.result
           /\ raised' = r.raised
           /\ run_count' = r.run_count
           /\ calls' = r.calls
           /\ visualized' = visualized \o Visualizations(r.calls)
  /\ UNCHANGED <<include_trace_on_error, visualize_to_dir, products, subjects, request,
                 invalidation_vars, construction_vars, thread_vars>>

\* SchedulerSession.schedule called on the request that execution_request built.
ScheduleCall ==
  /\ op = "execution_request"
  /\ IsSome(request)
  /\ \E eng \in ExecuteAnswers(The(request).native, visualize_to_dir) :
       LET r == ScheduleRun(The(request), eng, run_count, visualize_to_dir)
       IN  /\ op' = "schedule"
           /\ engine' = Some(eng)
           /\ ret' = r.roots
           /\ raised' = r.raised
           /\ run_count' = r.run_count
           /\ calls' = r.calls
           /\ visualized' = visualized \o Visualizations(r.calls)
  /\ UNCHANGED <<include_trace_on_error, visualize_to_dir, products, subjects,
                 request, result, invalidation_vars, construction_vars, thread_vars>>

\* SchedulerSession.products_request(products, subjects), and
\* product_request(product, subjects) when `single`: the request is built,
\* executed and its result handled in one call.
RequestProducts(prods, subjs, single) ==
  \E answers \in AddAnswers(Roots(prods, subjs)) :
    LET built == ExecutionRequestRun(prods, subjs, answers)
    IN  /\ products' = prods
        /\ subjects' = subjs
        /\ request' = built.request
        /\ IF IsSome(built.raised)
           THEN /\ raised' = built.raised
                /\ calls' = built.calls
                /\ ret' = None
                /\ UNCHANGED <<engine, result, run_count, visualized>>
           ELSE \E eng \in ExecuteAnswers(The(built.request).native, visualize_to_dir) :
                  LET ex == ExecuteRun(The(built.request), eng, run_count, visualize_to_dir)
                  IN  /\ engine' = Some(eng)
                      /\ result' = ex.result
                      /\ run_count' = ex.run_count
                      /\ visualized' = visualized \o Visualizations(ex.calls)
                      /\ IF IsSome(ex.raised)
                         THEN /\ raised' = ex.raised
                              /\ calls' = built.calls \o ex.calls
                              /\ ret' = None
                         ELSE \E order \in IterationOrders(ThrownBy(ex)) :
                                LET h == HandleResult(The(built.request), The(ex.result),
                                                      include_trace_on_error, order)
                                IN  /\ raised' = h.raised
                                    /\ calls' = built.calls \o ex.calls \o h.calls
                                    /\ ret' = IF single /\ IsSome(h.ret)
                                              THEN Some(GetItem(The(h.ret), prods[1]))
                                              ELSE h.ret

ProductsRequestCall ==
  /\ op = "init"
  /\ op' = "products_request"
  /\ \E args \in RequestArgs : RequestProducts(args[1], args[2], FALSE)
  /\ UNCHANGED <<include_trace_on_error, visualize_to_dir, invalidation_vars,
                 construction_vars, thread_vars>>

\* Line 541: products_request([product], subjects)[product].
ProductRequestCall ==
  /\ op = "init"
  /\ op' = "product_request"
  /\ \E args \in RequestArgs :
       /\ Len(args[1]) = 1
       /\ RequestProducts(args[1], args[2], TRUE)
  /\ UNCHANGED <<include_trace_on_error, visualize_to_dir, invalidation_vars,
                 construction_vars, thread_vars>>

Next ==
  \/ ExecutionRequestCall
  \/ ScheduleCall
  \/ ExecuteCall
  \/ ProductsRequestCall
  \/ ProductRequestCall

Spec == Init /\ [][Next]_vars

(***************************************************************************)
(* Scheduler.invalidate_files and SchedulerSession.invalidate_files        *)
(***************************************************************************)

\* Most paths given to one invalidate_files call.
MaxFiles == 2
\* The value of the run counter at which the model stops counting.
MaxRuns == 3

\* A path is the sequence of its pieces: the separator "/" and name pieces.
\* The paths given to invalidate_files: "", "a", "a/b", "a/b/c.txt", "a/",
\* "/a" and "a//b".
Paths ==
  { <<>>,
    <<"a">>,
    <<"a", "/", "b">>,
    <<"a", "/", "b", "/", "c.txt">>,
    <<"a", "/">>,
    <<"/", "a">>,
    <<"a", "/", "/", "b">> }

FileLists == UNION {[1..n -> Paths] : n \in 0..MaxFiles}

\* The paths for which the engine's graph may hold nodes.
GraphPaths == { <<"a", "/", "b", "/", "c.txt">>, <<"a", "/", "b">>, <<"a">> }

\* p.rfind('/') + 1: the position of the last separator, 0 when there is none.
RFind(p) ==
  LET at == {i \in 1..Len(p) : p[i] = "/"}
  IN  IF at = {} THEN 0 ELSE CHOOSE i \in at : \A j \in at : j <= i

\* head.rstrip('/').
RECURSIVE RStrip(_)
RStrip(head) ==
  IF head # <<>> /\ head[Len(head)] = "/"
  THEN RStrip(SubSeq(head, 1, Len(head) - 1))
  ELSE head

\* os.path.dirname: everything up to the last separator, without trailing
\* separators unless it consists of separators only.
Dirname(p) ==
  LET head == SubSeq(p, 1, RFind(p))
  IN  IF head # <<>> /\ (\E i \in 1..Len(head) : head[i] # "/")
      THEN RStrip(head)
      ELSE head

\* filenames = set(direct_filenames), without the update of line 292.
FilenamesWithoutParents(direct) == {direct[k] : k \in 1..Len(direct)}

\* Lines 291-292: the given paths and the dirname of each.
Filenames(direct) ==
  {direct[k] : k \in 1..Len(direct)} \cup {Dirname(direct[k]) : k \in 1..Len(direct)}

\* The engine's graph_invalidate: the nodes of the named paths leave the
\* graph, and their number is reported.
GraphInvalidate(g, filenames) ==
  [graph |-> g \ filenames, invalidated |-> Cardinality(g \cap filenames)]

\* An invalidate_files that raises when the engine invalidated nothing.
InvalidateFilesRaisingOnZero(direct, g) ==
  LET filenames == Filenames(direct)
      inv       == GraphInvalidate(g, filenames)
  IN  [raised |-> IF inv.invalidated = 0
                  THEN Some(Exception("ValueError", "nothing", "nothing to invalidate", <<>>))
                  ELSE None,
       ret    |-> IF inv.invalidated = 0 THEN None ELSE Some(inv.invalidated),
       graph  |-> inv.graph,
       calls  |-> <<Call("graph_invalidate", filenames)>>]

\* Scheduler.invalidate_files.
InvalidateFiles(direct, g) ==
  LET filenames == Filenames(direct)
      inv       == GraphInvalidate(g, filenames)
  IN  [raised |-> None,
       ret    |-> Some(inv.invalidated),
       graph  |-> inv.graph,
       calls  |-> <<Call("graph_invalidate", filenames)>>]

\* SchedulerSession.invalidate_files: the Scheduler's, then _maybe_visualize.
SessionInvalidateFiles(direct, g, count, visualizing, answer) ==
  LET i == InvalidateFiles(direct, g)
  IN  IF IsSome(i.raised)
      THEN [raised |-> i.raised, ret |-> None, graph |-> i.graph,
            run_count |-> count, calls |-> i.calls]
      ELSE LET v == MaybeVisualize(count, visualizing, answer)
           IN  [raised    |-> v.raised,
                ret       |-> IF IsSome(v.raised) THEN None ELSE i.ret,
                graph     |-> i.graph,
                run_count |-> v.run_count,
                calls     |-> i.calls \o v.calls]

\* The engine's answers to a visualization.
VisualizeAnswers(visualizing) ==
  IF visualizing
  THEN {PyResult(FALSE, None), PyResult(TRUE, VisualizeError)}
  ELSE {PyResult(FALSE, None)}

\* A session, the paths a watcher will report and the graph it finds.
InvalidateInit ==
  /\ include_trace_on_error = TRUE
  /\ visualize_to_dir \in BOOLEAN
  /\ run_count = 0
  /\ op = "init"
  /\ products = <<>>
  /\ subjects = <<>>
  /\ request = None
  /\ engine = None
  /\ result = None
  /\ ret = None
  /\ raised = None
  /\ calls = <<>>
  /\ visualized = <<>>
  /\ direct_filenames \in FileLists
  /\ graph \in SUBSET GraphPaths
  /\ rule_index = <<>>
  /\ validate = TRUE
  /\ ruleset_valid = TRUE
  /\ ThreadsIdle

\* The variables no invalidation touches.
request_vars == <<include_trace_on_error, products, subjects, request, engine, result>>

\* Scheduler.invalidate_files(direct_filenames).
SchedulerInvalidateFilesCall ==
  /\ LET r == InvalidateFiles(direct_filenames, graph)
     IN  /\ op' = "Scheduler.invalidate_files"
         /\ graph' = r.graph
         /\ ret' = r.ret
         /\ raised' = r.raised
         /\ calls' = r.calls
  /\ UNCHANGED <<request_vars, visualize_to_dir, run_count, visualized,
                 direct_filenames, construction_vars, thread_vars>>

\* SchedulerSession.invalidate_files(direct_filenames).
SessionInvalidateFilesCall ==
  /\ run_count < MaxRuns
  /\ \E answer \in VisualizeAnswers(visualize_to_dir) :
       LET r == SessionInvalidateFiles(direct_filenames, graph, run_count,
                                       visualize_to_dir, answer)
       IN  /\ op' = "SchedulerSession.invalidate_files"
           /\ graph' = r.graph
           /\ ret' = r.ret
           /\ raised' = r.raised
           /\ run_count' = r.run_count
           /\ calls' = r.calls
           /\ visualized' = visualized \o Visualizations(r.calls)
  /\ UNCHANGED <<request_vars, visualize_to_dir, direct_filenames, construction_vars, thread_vars>>

\* Between two calls the engine computes the nodes of a path again.
Recompute ==
  /\ op # "init"
  /\ \E p \in GraphPaths \ graph : graph' = graph \cup {p}
  /\ op' = "recompute"
  /\ ret' = None
  /\ raised' = None
  /\ calls' = <<>>
  /\ UNCHANGED <<request_vars, visualize_to_dir, run_count, visualized,
                 direct_filenames, construction_vars, thread_vars>>

InvalidateNext ==
  \/ SchedulerInvalidateFilesCall
  \/ SessionInvalidateFilesCall
  \/ Recompute

SpecInvalidate == InvalidateInit /\ [][InvalidateNext]_vars

(***************************************************************************)
(* Scheduler.__init__: rule registration and ruleset validation            *)
(***************************************************************************)

\* Most rules under one key of a rule index.
MaxRules == 2

\* selectors.Select, SelectVariant and Get.
Select(product) == [kind |-> "Select", product |-> product]
SelectVariant(product, variant_key) ==
  [kind |-> "SelectVariant", product |-> product, variant_key |-> variant_key]
Get(product, subject) == [kind |-> "Get", product |-> product, subject |-> subject]

\* rules.SingletonRule and rules.TaskRule.
SingletonRule(output_constraint, value) ==
  [kind |-> "SingletonRule", output_constraint |-> output_constraint, value |-> value]
TaskRule(output_constraint, input_selectors, input_gets, func) ==
  [kind |-> "TaskRule", output_constraint |-> output_constraint,
   input_selectors |-> input_selectors, input_gets |-> input_gets, func |-> func]

\* The rules given to a Scheduler: two singletons, a task with a Select, a
\* SelectVariant and a Get, and a task that lists a Get among its selectors.
Rules ==
  { SingletonRule(Exactly("p1"), "one"),
    SingletonRule(Exactly("p2"), "two"),
    TaskRule(Exactly("p1"),
             <<Select("p2"), SelectVariant("p2", "variant")>>,
             <<Get("p2", "s1")>>, "f"),
    TaskRule(Exactly("p2"), <<Select("p1"), Get("p1", "s2")>>, <<>>, "g") }

\* The keys of rule_index.rules: types and constraints side by side.
RuleKeys == {"p1", Exactly("p1"), "p2"}

\* The rule lists of one key: the rules of the key's constraint, no rule twice.
RuleLists(key) ==
  LET rules == {r \in Rules : r.output_constraint = ConstraintFor(key)}
  IN  {l \in UNION {[1..n -> rules] : n \in 1..MaxRules} :
         \A i, j \in 1..Len(l) : l[i] = l[j] => i = j}

\* The orders in which a dict may yield some of the keys, no key twice.
KeyOrders ==
  {ks \in UNION {[1..n -> RuleKeys] : n \in 0..Cardinality(RuleKeys)} :
     \A i, j \in 1..Len(ks) : ks[i] = ks[j] => i = j}

\* The items of rule_index.rules in the order the dict yields them.
RECURSIVE IndexesOver(_)
IndexesOver(keys) ==
  IF keys = <<>> THEN {<<>>}
  ELSE {<< <<Head(keys), l>> >> \o rest :
          l \in RuleLists(Head(keys)), rest \in IndexesOver(Tail(keys))}

RuleIndexes == UNION {IndexesOver(ks) : ks \in KeyOrders}

\* Function(key), TypeId(id), to_id(type) and utf8_buf(string) of the
\* native context.
Function(key) == [function |-> key]
TypeId(id) == [type_id |-> id]
ToId(type) == [id |-> type]
ToUtf8Buf(string) == [utf8 |-> string]

\* Scheduler._register_singleton.
RegisterSingleton(output_constraint, rule) ==
  [raised |-> None,
   calls  |-> <<Call("tasks_singleton_add", <<ToValue(rule.value), output_constraint>>)>>]

UnrecognizedSelector(selector) ==
  Exception("ValueError", "selector", "Unrecognized Selector type", <<selector.kind>>)

\* Lines 239-250: the loop over rule.input_selectors.
RECURSIVE AddSelectors(_, _, _)
AddSelectors(selectors, k, log) ==
  IF k > Len(selectors) THEN [raised |-> None, calls |-> log]
  ELSE LET selector           == selectors[k]
           product_constraint == ToConstraint(selector.product)
       IN  IF selector.kind = "Select"
           THEN AddSelectors(selectors, k + 1,
                             Append(log, Call("tasks_add_select", product_constraint)))
           ELSE IF selector.kind = "SelectVariant"
           THEN AddSelectors(selectors, k + 1,
                             Append(log, Call("tasks_add_select_variant",
                                              <<product_constraint,
                                                ToUtf8Buf(selector.variant_key)>>)))
           ELSE [raised |-> Some(UnrecognizedSelector(selector)), calls |-> log]

\* Lines 251-254: the loop over rule.input_gets.
AddGets(gets) ==
  [k \in 1..Len(gets) |->
     Call("tasks_add_get", <<ToConstraint(gets[k].product),
                             TypeId(ToId(gets[k].subject))>>)]

\* _register_task without its last line: the scope is never closed.
RegisterTaskNeverClosed(output_constraint, rule) ==
  LET begin     == Call("tasks_task_begin", <<Function(ToKey(rule.func)), output_constraint>>)
      selectors == AddSelectors(rule.input_selectors, 1, <<begin>>)
  IN  IF IsSome(selectors.raised)
      THEN selectors
      ELSE [raised |-> None, calls |-> selectors.calls \o AddGets(rule.input_gets)]

\* Scheduler._register_task.
RegisterTask(output_constraint, rule) ==
  LET begin     == Call("tasks_task_begin", <<Function(ToKey(rule.func)), output_constraint>>)
      selectors == AddSelectors(rule.input_selectors, 1, <<begin>>)
  IN  IF IsSome(selectors.raised)
      THEN selectors
      ELSE [raised |-> None,
            calls  |-> selectors.calls \o AddGets(rule.input_gets)
                       \o <<Call("tasks_task_end", <<>>)>>]

UnexpectedRule(rule) ==
  Exception("ValueError", "rule", "Unexpected Rule type", <<rule.kind>>)

\* Lines 219-224: the dispatch on the type of the rule.
RegisterRule(output_constraint, rule) ==
  IF rule.kind = "SingletonRule" THEN RegisterSingleton(output_constraint, rule)
  ELSE IF rule.kind = "TaskRule" THEN RegisterTask(output_constraint, rule)
  ELSE [raised |-> Some(UnexpectedRule(rule)), calls |-> <<>>]

\* if key in registered: left out, so that nothing is passed over.
NeverRegistered(key, registered) == FALSE

\* Lines 214-216: whether the pair is passed over.
AlreadyRegistered(key, registered) == key \in registered

\* Lines 208-224: the two loops of _register_rules, from the j-th rule of
\* the i-th item on.
RECURSIVE RegisterFrom(_, _, _, _, _)
RegisterFrom(index, i, j, registered, log) ==
  IF i > Len(index) THEN [raised |-> None, calls |-> log, registered |-> registered]
  ELSE IF j > Len(index[i][2]) THEN RegisterFrom(index, i + 1, 1, registered, log)
  ELSE LET output_constraint == ToConstraint(index[i][1])
           rule              == index[i][2][j]
           key               == <<output_constraint, rule>>
       IN  IF AlreadyRegistered(key, registered)
           THEN RegisterFrom(index, i, j + 1, registered, log)
           ELSE LET r == RegisterRule(output_constraint, rule)
                IN  IF IsSome(r.raised)
                    THEN [raised |-> r.raised, calls |-> log \o r.calls,
                          registered |-> registered \cup {key}]
                    ELSE RegisterFrom(index, i, j + 1, registered \cup {key},
                                      log \o r.calls)

\* Scheduler._register_rules.
RegisterRules(index) == RegisterFrom(index, 1, 1, {}, <<>>)

\* The execution options, as the truth of their two server settings.
ExecutionOptions ==
  [remote_store_server : BOOLEAN, remote_execution_server : BOOLEAN]

\* The value the engine's validator hands back: an exception object when
\* it rejects the rules, nothing otherwise.
ValidatorValue(valid) ==
  IF valid THEN [kind |-> "none"]
  ELSE Exception("Exception", "invalid", "Rules with errors", <<>>)

ValidatorRun(valid) == ToValue(ValidatorValue(valid))

\* The validator's answer is dropped.
AssertRulesetValidIgnored(raw_value) == None

\* Scheduler._assert_ruleset_valid: what it raises, if it raises.
AssertRulesetValid(raw_value) ==
  LET value == FromValue(raw_value)
  IN  IF value.kind = "exc"
      THEN Some(Exception("ValueError", "ruleset", value.text, <<>>))
      ELSE None

RemoteExecutionError ==
  Exception("ValueError", "options",
            "Cannot set remote execution server without setting remote store server", <<>>)

\* Scheduler.__init__.
SchedulerInit(options, index, visualizing, validating, valid) ==
  IF options.remote_execution_server /\ ~options.remote_store_server
  THEN [raised |-> Some(RemoteExecutionError), calls |-> <<>>]
  ELSE LET reg   == RegisterRules(index)
           tasks == <<Call("new_tasks", <<>>)>> \o reg.calls
       IN  IF IsSome(reg.raised)
           THEN [raised |-> reg.raised, calls |-> tasks]
           ELSE LET built == tasks \o <<Call("new_scheduler", <<>>)>>
                             \o (IF visualizing
                                 THEN <<Call("rule_graph_visualize", "rule_graph.dot")>>
                                 ELSE <<>>)
                IN  IF validating
                    THEN [raised |-> AssertRulesetValid(ValidatorRun(valid)),
                          calls  |-> Append(built, Call("validator_run", <<>>))]
                    ELSE [raised |-> None, calls |-> built]

\* The state before a Scheduler is constructed over the rule indexes `indexes`.
ArgumentsInit(indexes) ==
  /\ include_trace_on_error \in BOOLEAN
  /\ visualize_to_dir \in BOOLEAN
  /\ run_count = 0
  /\ op = "construct"
  /\ products = <<>>
  /\ subjects = <<>>
  /\ request = None
  /\ engine = None
  /\ result = None
  /\ ret = None
  /\ raised = None
  /\ calls = <<>>
  /\ visualized = <<>>
  /\ direct_filenames = <<>>
  /\ graph = {}
  /\ rule_index \in indexes
  /\ validate \in BOOLEAN
  /\ ruleset_valid \in BOOLEAN
  /\ ThreadsIdle

\* Scheduler(native, project_tree, work_dir, rules, execution_options,
\* include_trace_on_error, validate).
SchedulerInitCall ==
  /\ op = "construct"
  /\ \E options \in ExecutionOptions :
       LET r == SchedulerInit(options, rule_index, visualize_to_dir, validate, ruleset_valid)
       IN  /\ op' = IF IsSome(r.raised) THEN "Scheduler.__init__ raised" ELSE "Scheduler"
           /\ raised' = r.raised
           /\ calls' = r.calls
  /\ UNCHANGED <<request_vars, visualize_to_dir, run_count, ret, visualized,
                 invalidation_vars, construction_vars, thread_vars>>

\* Scheduler.new_session.
NewSessionCall ==
  /\ op = "Scheduler"
  /\ op' = "new_session"
  /\ run_count' = 0
  /\ calls' = <<Call("new_session", <<>>)>>
  /\ UNCHANGED <<request_vars, visualize_to_dir, ret, raised, visualized,
                 invalidation_vars, construction_vars, thread_vars>>

\* product_request(product, [subject]) on the new session.
SessionProductRequestCall ==
  /\ op = "new_session"
  /\ op' = "product_request"
  /\ \E p \in Products, s \in Subjects : RequestProducts(<<p>>, <<s>>, TRUE)
  /\ UNCHANGED <<include_trace_on_error, visualize_to_dir, invalidation_vars,
                 construction_vars, thread_vars>>

\* The rule indexes of one key and one rule.
SingleRuleIndexes ==
  {ix \in RuleIndexes : Len(ix) <= 1 /\ \A i \in 1..Len(ix) : Len(ix[i][2]) = 1}

ConstructInit == ArgumentsInit(SingleRuleIndexes)

ConstructNext ==
  \/ SchedulerInitCall
  \/ NewSessionCall
  \/ SessionProductRequestCall

\* A Scheduler is constructed, then a session created and asked for a product.
SpecConstruct == ConstructInit /\ [][ConstructNext]_vars

RegisterInit == ArgumentsInit(RuleIndexes) /\ validate /\ ruleset_valid

RegisterNext == SchedulerInitCall

\* A Scheduler is constructed over any of the rule indexes.
SpecRegister == RegisterInit /\ [][RegisterNext]_vars

(***************************************************************************)
(* One session serving schedule and invalidate_files calls, one at a time  *)
(***************************************************************************)

\* A session that has built the request of one root, before its first run.
RunsInit ==
  /\ include_trace_on_error = TRUE
  /\ visualize_to_dir \in BOOLEAN
  /\ run_count = 0
  /\ op = "execution_request"
  /\ \E p \in Products, s \in Subjects :
       /\ products = <<p>>
       /\ subjects = <<s>>
       /\ request = ExecutionRequestRun(products, subjects, <<PyResult(FALSE, None)>>).request
  /\ engine = None
  /\ result = None
  /\ ret = None
  /\ raised = None
  /\ calls = <<>>
  /\ visualized = <<>>
  /\ direct_filenames \in {<<>>, << <<"a", "/", "b", "/", "c.txt">> >>}
  /\ graph = GraphPaths
  /\ rule_index = <<>>
  /\ validate = TRUE
  /\ ruleset_valid = TRUE
  /\ ThreadsIdle

\* SchedulerSession.schedule(request), called again and again.
SessionScheduleCall ==
  /\ run_count < MaxRuns
  /\ \E eng \in ExecuteAnswers(The(request).native, visualize_to_dir) :
       LET r == ScheduleRun(The(request), eng, run_count, visualize_to_dir)
       IN  /\ op' = "schedule"
           /\ engine' = Some(eng)
           /\ ret' = r.roots
           /\ raised' = r.raised
           /\ run_count' = r.run_count
           /\ calls' = r.calls
           /\ visualized' = visualized \o Visualizations(r.calls)
  /\ UNCHANGED <<include_trace_on_error, visualize_to_dir, products, subjects,
                 request, result, invalidation_vars, construction_vars, thread_vars>>

RunsNext ==
  \/ SessionScheduleCall
  \/ SessionInvalidateFilesCall

SpecRuns == RunsInit /\ [][RunsNext]_vars

(***************************************************************************)
(* Two threads calling schedule and invalidate_files on one session,       *)
(* statement by statement                                                  *)
(***************************************************************************)

\* A session that has built a request of one or two roots, and two threads
\* about to call into it.
ThreadsInit ==
  /\ include_trace_on_error = TRUE
  /\ visualize_to_dir \in BOOLEAN
  /\ run_count = 0
  /\ op = "execution_request"
  /\ products = <<"p1">>
  /\ subjects \in {<<"s1">>, <<"s1", "s2">>}
  /\ request = ExecutionRequestRun(products, subjects,
                                   [k \in 1..Len(subjects) |-> PyResult(FALSE, None)]).request
  /\ engine = None
  /\ result = None
  /\ ret = None
  /\ raised = None
  /\ calls = <<>>
  /\ visualized = <<>>
  /\ direct_filenames = << <<"a", "/", "b", "/", "c.txt">> >>
  /\ graph = GraphPaths
  /\ rule_index = <<>>
  /\ validate = TRUE
  /\ ruleset_valid = TRUE
  /\ ThreadsIdle

\* The variables no statement of schedule or invalidate_files assigns.
session_vars == <<include_trace_on_error, visualize_to_dir, op, products, subjects,
                  request, engine, result, ret, raised, calls, direct_filenames,
                  construction_vars>>

\* Thread t calls session.schedule(request).
CallSchedule(t) ==
  /\ pc[t] = "idle"
  /\ pc' = [pc EXCEPT ![t] = "scheduler_execute"]
  /\ local' = [local EXCEPT ![t].call = "schedule"]
  /\ UNCHANGED <<session_vars, run_count, visualized, graph, raw_heap>>

\* Thread t calls session.invalidate_files(direct_filenames).
CallInvalidateFiles(t) ==
  /\ pc[t] = "idle"
  /\ pc' = [pc EXCEPT ![t] = "invalidate_files"]
  /\ local' = [local EXCEPT ![t].call = "invalidate_files"]
  /\ UNCHANGED <<session_vars, run_count, visualized, graph, raw_heap>>

\* Line 319: raw_roots = scheduler_execute(...), which allocates the raw
\* result unless the engine raises.
SchedulerExecute(t) ==
  /\ pc[t] = "scheduler_execute"
  /\ \E eng \in ExecuteAnswers(The(request).native, FALSE) :
       IF IsSome(eng.fault)
       THEN /\ pc' = [pc EXCEPT ![t] = "done"]
            /\ local' = [local EXCEPT
                 ![t].raised = eng.fault,
                 ![t].calls = Append(@, Call("scheduler_execute", The(request).native))]
            /\ UNCHANGED raw_heap
       ELSE /\ pc' = [pc EXCEPT ![t] = "convert"]
            /\ local' = [local EXCEPT
                 ![t].raw_roots = Some(eng.nodes),
                 ![t].calls = Append(@, Call("scheduler_execute", The(request).native))]
            /\ raw_heap' = [raw_heap EXCEPT
                 ![t] = [obtained |-> 1, live |-> TRUE, destroyed |-> 0, stale_reads |-> 0]]
  /\ UNCHANGED <<session_vars, run_count, visualized, graph>>

\* try: ... without the finally: the release is skipped when the loop raises.
AfterConversionWithoutFinally(conversion_raised) ==
  IF IsSome(conversion_raised) THEN "done" ELSE "nodes_destroy"

\* Lines 320 and 331: try: ... finally: the release follows the loop however
\* the loop ends.
AfterConversion(conversion_raised) == "nodes_destroy"

\* Lines 322-330: one iteration of the loop over the raw roots, which reads
\* the next raw root out of the raw result, or the end of the loop.
ConvertRoot(t) ==
  /\ pc[t] = "convert"
  /\ LET nodes == The(local[t].raw_roots)
         k     == local[t].k
     IN  IF k = Len(nodes)
         THEN /\ pc' = [pc EXCEPT ![t] = AfterConversion(None)]
              /\ UNCHANGED <<local, raw_heap>>
         ELSE LET c == ConvertRoots(<<nodes[k + 1]>>, 1, <<>>)
              IN  /\ raw_heap' = [raw_heap EXCEPT
                       ![t].stale_reads = IF raw_heap[t].live THEN @ ELSE @ + 1]
                  /\ IF IsSome(c.raised)
                     THEN /\ pc' = [pc EXCEPT ![t] = AfterConversion(c.raised)]
                          /\ local' = [local EXCEPT ![t].raised = c.raised]
                     ELSE /\ pc' = pc
                          /\ local' = [local EXCEPT ![t].k = k + 1,
                                                    ![t].roots = @ \o c.roots]
  /\ UNCHANGED <<session_vars, run_count, visualized, graph>>

\* Lines 332-333: nodes_destroy(raw_roots), then the exception of the loop
\* goes on, or the roots are returned to schedule (lines 462-463) which goes
\* on to _maybe_visualize (line 465).
NodesDestroy(t) ==
  /\ pc[t] = "nodes_destroy"
  /\ raw_heap' = [raw_heap EXCEPT ![t].live = FALSE, ![t].destroyed = @ + 1]
  /\ local' = [local EXCEPT
       ![t].calls = Append(@, Call("nodes_destroy", The(local[t].raw_roots)))]
  /\ pc' = [pc EXCEPT ![t] = IF IsSome(local[t].raised) THEN "done" ELSE "_maybe_visualize"]
  /\ UNCHANGED <<session_vars, run_count, visualized, graph>>

\* Line 434: invalidated = self._scheduler.invalidate_files(direct_filenames).
InvalidateFilesStep(t) ==
  /\ pc[t] = "invalidate_files"
  /\ LET i == InvalidateFiles(direct_filenames, graph)
     IN  /\ graph' = i.graph
         /\ local' = [local EXCEPT ![t].ret = i.ret, ![t].calls = @ \o i.calls]
  /\ pc' = [pc EXCEPT ![t] = "_maybe_visualize"]
  /\ UNCHANGED <<session_vars, run_count, visualized, raw_heap>>

\* Line 449: if self._scheduler.visualize_to_dir() is not None.
TestVisualize(t) ==
  /\ pc[t] = "_maybe_visualize"
  /\ pc' = [pc EXCEPT ![t] = IF visualize_to_dir THEN "format" ELSE "return"]
  /\ UNCHANGED <<session_vars, run_count, visualized, graph, local, raw_heap>>

\* Line 450: name = 'graph.{0:03d}.dot'.format(self._run_count).
FormatName(t) ==
  /\ pc[t] = "format"
  /\ local' = [local EXCEPT ![t].name = Some(GraphName(run_count))]
  /\ pc' = [pc EXCEPT ![t] = "load"]
  /\ UNCHANGED <<session_vars, run_count, visualized, graph, raw_heap>>

\* Line 451, self._run_count += 1: the attribute is loaded.
LoadRunCount(t) ==
  /\ pc[t] = "load"
  /\ local' = [local EXCEPT ![t].loaded = Some(run_count)]
  /\ pc' = [pc EXCEPT ![t] = "store"]
  /\ UNCHANGED <<session_vars, run_count, visualized, graph, raw_heap>>

\* An increment of the attribute as it is when stored, as under a lock.
IncrementedInPlace(loaded, current) == current + 1

\* Line 451: the value stored is the value loaded plus one.
Incremented(loaded, current) == loaded + 1

\* Line 451, self._run_count += 1: the sum is stored.
StoreRunCount(t) ==
  /\ pc[t] = "store"
  /\ run_count' = Incremented(The(local[t].loaded), run_count)
  /\ pc' = [pc EXCEPT ![t] = "visualize_graph_to_file"]
  /\ UNCHANGED <<session_vars, visualized, graph, local, raw_heap>>

\* Line 452: self.visualize_graph_to_file(os.path.join(dir, name)).
VisualizeGraphToFile(t) ==
  /\ pc[t] = "visualize_graph_to_file"
  /\ \E answer \in VisualizeAnswers(TRUE) :
       LET r == RaiseOrReturn(answer)
       IN  /\ local' = [local EXCEPT
                ![t].raised = r.raised,
                ![t].ret = IF IsSome(r.raised) THEN None ELSE @,
                ![t].calls = Append(@, Call("graph_visualize", The(local[t].name)))]
           /\ pc' = [pc EXCEPT ![t] = IF IsSome(r.raised) THEN "done" ELSE "return"]
  /\ visualized' = Append(visualized, The(local[t].name))
  /\ UNCHANGED <<session_vars, run_count, graph, raw_heap>>

\* Lines 467-474 of schedule (the log line and return roots) and line 436 of
\* invalidate_files (return invalidated).
ReturnStep(t) ==
  /\ pc[t] = "return"
  /\ local' = IF local[t].call = "schedule"
              THEN [local EXCEPT
                      ![t].ret = Some(Zip(The(request).roots, local[t].roots)),
                      ![t].calls = Append(@, Call("graph_len", <<>>))]
              ELSE local
  /\ pc' = [pc EXCEPT ![t] = "done"]
  /\ UNCHANGED <<session_vars, run_count, visualized, graph, raw_heap>>

ThreadsNext ==
  \E t \in Threads :
    \/ CallSchedule(t)
    \/ CallInvalidateFiles(t)
    \/ SchedulerExecute(t)
    \/ ConvertRoot(t)
    \/ NodesDestroy(t)
    \/ InvalidateFilesStep(t)
    \/ TestVisualize(t)
    \/ FormatName(t)
    \/ LoadRunCount(t)
    \/ StoreRunCount(t)
    \/ VisualizeGraphToFile(t)
    \/ ReturnStep(t)

SpecThreads == ThreadsInit /\ [][ThreadsNext]_vars


(***************************************************************************)
(* Properties                                                              *)
(***************************************************************************)

\* The call served was products_request or product_request.
Requested == op \in {"products_request", "product_request"}

\* The (root, state) pairs of a finished result, and the distinct error
\* objects under its Throw states.
FinishedRootProducts ==
  IF IsSome(result) /\ IsSome(The(result).root_products)
  THEN The(The(result).root_products) ELSE <<>>

ThrowIndexes ==
  {k \in 1..Len(FinishedRootProducts) : FinishedRootProducts[k][2].type = "Throw"}

ThrownErrors == {FinishedRootProducts[k][2].exc : k \in ThrowIndexes}

AllReturn ==
  /\ IsSome(result)
  /\ IsSome(The(result).root_products)
  /\ \A k \in 1..Len(FinishedRootProducts) : FinishedRootProducts[k][2].type = "Return"

\* How many elements of a sequence equal x.
Count(seq, x) == Cardinality({k \in 1..Len(seq) : seq[k] = x})

\* C1: whenever execution_request returns a request, its roots are the pairs
\* (s, p) subject-major and product-minor: len(subjects) * len(products) of
\* them, the pair of the i-th subject and j-th product at position
\* (i-1) * len(products) + j; for subjects [s1,s2] and products [p1,p2] they
\* are [(s1,p1),(s1,p2),(s2,p1),(s2,p2)].
C1_RootsSubjectMajor ==
  IsSome(request) =>
    LET roots == The(request).roots
    IN  /\ Len(roots) = Len(subjects) * Len(products)
        /\ \A i \in 1..Len(subjects), j \in 1..Len(products) :
             roots[(i - 1) * Len(products) + j] = <<subjects[i], products[j]>>
        /\ (subjects = <<"s1", "s2">> /\ products = <<"p1", "p2">>
              => roots = << <<"s1", "p1">>, <<"s1", "p2">>, <<"s2", "p1">>, <<"s2", "p2">> >>)

C1_Witness ==
  /\ op = "execution_request"
  /\ IsSome(request)
  /\ subjects = <<"s1", "s2">>
  /\ products = <<"p1", "p2">>
  /\ The(request).roots[2] = <<"s1", "p2">>

\* C2: for non-empty products and subjects, the mapping products_request
\* returns holds, for every requested product, a list of exactly
\* len(subjects) values whose i-th value is the one computed for the i-th
\* subject.
C2_ListPerProduct ==
  (op = "products_request" /\ IsSome(ret) /\ products # <<>> /\ subjects # <<>>) =>
    \A j \in 1..Len(products) :
      LET values == GetItem(The(ret), products[j])
      IN  /\ Len(values) = Len(subjects)
          /\ \A i \in 1..Len(subjects) : values[i] = Value(subjects[i], products[j])

\* C3 as stated: if exactly one distinct error object underlies all Throw
\* outcomes, products_request raises that error object itself.
C3_SingleErrorRaised ==
  (Requested /\ Cardinality(ThrownErrors) = 1) =>
    raised = Some(CHOOSE e \in ThrownErrors : TRUE)

\* C3, amended: if trace-on-error is disabled and exactly one distinct error
\* object underlies all Throw outcomes, products_request raises that error
\* object itself (same identity, class and text), and returns nothing.
C3_SingleErrorRaisedWithoutTrace ==
  (Requested /\ ~include_trace_on_error /\ Cardinality(ThrownErrors) = 1) =>
    /\ raised = Some(CHOOSE e \in ThrownErrors : TRUE)
    /\ IsNone(ret)

C3_Witness ==
  /\ op = "products_request"
  /\ ~include_trace_on_error
  /\ Cardinality(ThrowIndexes) >= 2
  /\ ThrownErrors = {EngineError("e1")}
  /\ raised = Some(EngineError("e1"))

\* C4: if two or more distinct errors underlie the Throw outcomes and
\* trace-on-error is disabled, products_request raises an ExecutionError
\* whose lines are the class name and text of the distinct errors, one line
\* for each distinct error however many roots threw it.
C4_EachErrorListedOnce ==
  (Requested /\ ~include_trace_on_error /\ Cardinality(ThrownErrors) >= 2) =>
    /\ IsSome(raised)
    /\ The(raised).cls = "ExecutionError"
    /\ The(raised).text = "Multiple exceptions encountered:"
    /\ Len(The(raised).lines) = Cardinality(ThrownErrors)
    /\ \A e \in ThrownErrors :
         Count(The(raised).lines, [type_name |-> e.cls, str |-> e.text])
           = Cardinality({d \in ThrownErrors : d.cls = e.cls /\ d.text = e.text})

C4_Witness ==
  /\ op = "products_request"
  /\ ~include_trace_on_error
  /\ Cardinality(ThrowIndexes) = 3
  /\ ThrownErrors = {EngineError("e1"), EngineError("e2")}
  /\ IsSome(raised)
  /\ Len(The(raised).lines) = 2

\* C5: if trace-on-error is enabled and some root outcome is Throw,
\* products_request raises one ExecutionError that carries the trace the
\* engine gives for the whole request (every root of it, failing or not),
\* asked for once, whatever the number of distinct errors.
C5_TraceOfWholeRequest ==
  (Requested /\ include_trace_on_error /\ ThrownErrors # {}) =>
    LET roots == The(request).roots
        traces == SelectSeq(calls, LAMBDA c : c.fn = "graph_trace")
    IN  /\ IsSome(raised)
        /\ IsNone(ret)
        /\ The(raised).cls = "ExecutionError"
        /\ The(raised).text = "Received unexpected Throw state(s):"
        /\ Len(traces) = 1
        /\ traces[1].arg = The(request).native
        /\ Len(The(raised).lines) = Len(roots)
        /\ \A k \in 1..Len(roots) :
             The(raised).lines[k].trace_of =
               [subject |-> ToKey(roots[k][1]), product |-> ToConstraint(roots[k][2])]

C5_Witness ==
  /\ op = "products_request"
  /\ include_trace_on_error
  /\ Cardinality(ThrownErrors) = 2
  /\ Len(FinishedRootProducts) = 4
  /\ Cardinality(ThrowIndexes) = 2
  /\ IsSome(raised)
  /\ The(raised).cls = "ExecutionError"
  /\ Len(The(raised).lines) = 4

\* C6: if every root outcome of the executed request is Return,
\* products_request (and product_request) does not raise and returns its
\* result, whether trace-on-error is enabled or not.
C6_AllReturnNeverRaises ==
  (Requested /\ AllReturn) => (IsNone(raised) /\ IsSome(ret))

C6_Witness ==
  /\ op = "products_request"
  /\ include_trace_on_error
  /\ AllReturn
  /\ Len(FinishedRootProducts) = 4
  /\ IsNone(raised)
  /\ IsSome(ret)

\* C7: products_request and product_request end by returning or by raising
\* one error, never both; a returned mapping holds one value per subject for
\* every requested product (the value computed for that subject), and
\* whenever a root is Throw the call raises and returns nothing.
C7_FullMappingOrError ==
  Requested =>
    /\ IsSome(ret) # IsSome(raised)
    /\ (ThrownErrors # {} => IsSome(raised) /\ IsNone(ret))
    /\ (IsSome(ret) =>
          \A j \in 1..Len(products) :
            LET values == IF op = "product_request" THEN The(ret)
                          ELSE GetItem(The(ret), products[j])
            IN  /\ Len(values) = Len(subjects)
                /\ \A i \in 1..Len(subjects) : values[i] = Value(subjects[i], products[j]))

\* C8: when execute yields a Failure, products_request raises exactly its
\* error: nothing is returned, no trace is asked of the engine, and the
\* error raised is the engine's fatal error, not an ExecutionError.
C8_FailureRaisedAtOnce ==
  (Requested /\ IsSome(result) /\ IsSome(The(result).error)) =>
    /\ raised = The(result).error
    /\ raised = The(engine).fault
    /\ IsNone(ret)
    /\ \A k \in 1..Len(calls) : calls[k].fn # "graph_trace"
    /\ calls[Len(calls)].fn = "scheduler_execute"

C8_Witness ==
  /\ op = "products_request"
  /\ include_trace_on_error
  /\ IsSome(request)
  /\ Len(The(request).roots) = 4
  /\ IsSome(result)
  /\ The(result).error = Some(FatalError)
  /\ raised = Some(FatalError)

\* The state a caller of schedule sees for a raw node of a recognized tag.
OutcomeOf(node) ==
  IF node.state_tag = 1 THEN [type |-> "Return", value |-> node.state_value.handle]
  ELSE [type |-> "Throw", exc |-> node.state_value.handle]

\* The engine was asked to execute, raised no fault, reported only
\* recognized tags and wrote the visualization, if one was due.
ScheduleCompleted ==
  /\ IsSome(engine)
  /\ IsNone(The(engine).fault)
  /\ \A k \in 1..Len(The(engine).nodes) : The(engine).nodes[k].state_tag \in 1..4
  /\ ~(visualize_to_dir /\ The(engine).viz.is_throw)

\* C9: execute turns a TaskError raised by the engine while scheduling into
\* ExecutionResult.Failure holding that error, and does not raise it; when
\* schedule completes, also with roots that ended in Throw, it returns
\* ExecutionResult.Finished holding every root with its own outcome, in root
\* order.
C9_ExecuteFailureOrFinished ==
  (op \in {"execute", "products_request", "product_request"} /\ IsSome(engine)) =>
    /\ (IsSome(The(engine).fault) /\ The(The(engine).fault).cls = "TaskError") =>
         /\ result = Some([error |-> The(engine).fault, root_products |-> None])
         /\ (op = "execute" => IsNone(raised) /\ ret = result)
    /\ ScheduleCompleted =>
         /\ IsSome(result)
         /\ IsNone(The(result).error)
         /\ (op = "execute" => IsNone(raised) /\ ret = result)
         /\ Len(FinishedRootProducts) = Len(The(request).roots)
         /\ Len(FinishedRootProducts) = Len(The(engine).nodes)
         /\ \A k \in 1..Len(FinishedRootProducts) :
              /\ FinishedRootProducts[k][1] = The(request).roots[k]
              /\ FinishedRootProducts[k][2] = OutcomeOf(The(engine).nodes[k])

C9_Witness ==
  /\ op = "execute"
  /\ ScheduleCompleted
  /\ Len(FinishedRootProducts) = 4
  /\ Cardinality(ThrowIndexes) = 2
  /\ FinishedRootProducts[1][2].type = "Throw"
  /\ FinishedRootProducts[4][2].type = "Return"
  /\ IsNone(raised)

\* C10: an ExecutionResult produced by execute holds either an error and no
\* root products, or root products and no error.
C10_ErrorXorRootProducts ==
  IsSome(result) =>
    \/ IsSome(The(result).error) /\ IsNone(The(result).root_products)
    \/ IsNone(The(result).error) /\ IsSome(The(result).root_products)

C10_Witness ==
  /\ op = "execute"
  /\ IsSome(result)
  /\ The(result).error = Some(FatalError)
  /\ IsNone(The(result).root_products)


\* The state list a caller received: the return value of schedule, or the
\* root products of the result of execute.
OutcomePairs ==
  IF op = "schedule" THEN (IF IsSome(ret) THEN The(ret) ELSE <<>>)
  ELSE FinishedRootProducts

\* C11: when schedule returns, it returns as many (root, outcome) pairs as
\* the request has roots, and the i-th pair holds the i-th root of the
\* request with the outcome the engine reported at position i.
C11_OnePairPerRootInOrder ==
  (op = "schedule" /\ IsSome(ret)) =>
    /\ Len(The(ret)) = Len(The(request).roots)
    /\ \A k \in 1..Len(The(ret)) :
         The(ret)[k] = <<The(request).roots[k], OutcomeOf(The(engine).nodes[k])>>

\* schedule returned four pairs whose first and last outcomes differ.
C11_Witness ==
  /\ op = "schedule"
  /\ IsSome(ret)
  /\ Len(The(ret)) = 4
  /\ The(ret)[1][2].type = "Return"
  /\ The(ret)[4][2].type = "Throw"
  /\ The(ret)[2][1] # The(ret)[3][1]

\* C12: every outcome schedule or execute hands back is a Return or a
\* Throw: the node of tag 1 comes back as Return of its value, a node of
\* tag 2, 3 or 4 as Throw of its value, and a run in which the engine
\* reported only these tags hands back an outcome for every node.
C12_ReturnOrThrowByTag ==
  (op \in {"schedule", "execute"} /\ IsSome(engine) /\ IsNone(The(engine).fault)) =>
    LET nodes == The(engine).nodes
    IN  /\ \A k \in 1..Len(OutcomePairs) :
             LET state == OutcomePairs[k][2]
                 value == nodes[k].state_value.handle
             IN  /\ state.type \in {"Return", "Throw"}
                 /\ nodes[k].state_tag \in {1, 2, 3, 4}
                 /\ nodes[k].state_tag = 1 =>
                      state = [type |-> "Return", value |-> value]
                 /\ nodes[k].state_tag \in {2, 3, 4} =>
                      state = [type |-> "Throw", exc |-> value]
        /\ ScheduleCompleted => Len(OutcomePairs) = Len(nodes)

\* schedule returned the outcomes of nodes of all four recognized tags.
C12_Witness ==
  /\ op = "schedule"
  /\ IsSome(ret)
  /\ {The(engine).nodes[k].state_tag : k \in 1..Len(The(engine).nodes)} = {1, 2, 3, 4}

\* The engine executed the request and reported a node whose tag is not
\* one of 1, 2, 3 and 4.
UnrecognizedTagReported ==
  /\ IsSome(engine)
  /\ IsNone(The(engine).fault)
  /\ \E k \in 1..Len(The(engine).nodes) : The(engine).nodes[k].state_tag \notin {1, 2, 3, 4}

\* C13: when the engine reports a node of an unrecognized tag, the call
\* raises the ValueError of that tag: schedule returns no list, execute
\* returns no result (neither Finished nor Failure), products_request
\* returns no mapping, and the run is cut short before any visualization.
C13_UnrecognizedTagRaises ==
  UnrecognizedTagReported =>
    LET nodes == The(engine).nodes
        first == CHOOSE k \in 1..Len(nodes) :
                   /\ nodes[k].state_tag \notin {1, 2, 3, 4}
                   /\ \A j \in 1..(k - 1) : nodes[j].state_tag \in {1, 2, 3, 4}
    IN  /\ IsSome(raised)
        /\ The(raised).cls = "ValueError"
        /\ The(raised).text = "Unrecognized State type"
        /\ The(raised).lines = <<ToString(nodes[first].state_tag)>>
        /\ IsNone(ret)
        /\ IsNone(result)
        /\ run_count = 0
        /\ \A k \in 1..Len(calls) : calls[k].fn # "graph_visualize"

\* execute was called on a request whose first root the engine reported as
\* Return and whose second root it reported under an unrecognized tag.
C13_Witness ==
  /\ op = "execute"
  /\ UnrecognizedTagReported
  /\ Len(The(engine).nodes) >= 2
  /\ The(engine).nodes[1].state_tag = 1
  /\ The(engine).nodes[2].state_tag = 0
  /\ IsSome(raised)

\* The adds of roots that execution_request made, in the order of the calls.
RootAdds == SelectSeq(calls, LAMBDA c : c.fn = "execution_add_root_select")

\* The indexes of the roots the engine's error names.
RefusedIndexes ==
  {k \in 1..Len(Roots(products, subjects)) :
     raised = Some(NoRuleError(Roots(products, subjects)[k]))}

\* C17: execution_request makes nothing but a new native request and one
\* add per root, in root order.  When the engine refuses a root, the call
\* raises the engine's error itself, the refused root is the last one
\* added, no ExecutionRequest is returned and nothing is executed; when no
\* root is refused, every root has been added and the request is returned.
C17_RootsAddedInOrderUntilError ==
  op = "execution_request" =>
    LET roots == Roots(products, subjects)
    IN  /\ calls = <<Call("new_execution_request", <<>>)>> \o RootAdds
        /\ Len(RootAdds) <= Len(roots)
        /\ \A k \in 1..Len(RootAdds) :
             RootAdds[k].arg = [subject |-> ToKey(roots[k][1]),
                                product |-> ToConstraint(roots[k][2])]
        /\ IF IsSome(raised)
           THEN /\ RefusedIndexes # {}
                /\ Len(RootAdds) \in RefusedIndexes
                /\ \A k \in RefusedIndexes : Len(RootAdds) <= k
                /\ IsNone(ret)
                /\ IsNone(request)
           ELSE /\ Len(RootAdds) = Len(roots)
                /\ IsSome(ret)
                /\ ret = request
                /\ The(ret).roots = roots
                /\ Len(The(ret).native) = Len(roots)

\* The engine refused the second of four roots.
C17_Witness ==
  /\ op = "execution_request"
  /\ Len(Roots(products, subjects)) = 4
  /\ raised = Some(NoRuleError(Roots(products, subjects)[2]))
  /\ Len(RootAdds) = 2

\* The call served was one of the two invalidate_files.
InvalidateServed ==
  op \in {"Scheduler.invalidate_files", "SchedulerSession.invalidate_files"}

AllSeparators(s) == \A i \in 1..Len(s) : s[i] = "/"
NoSeparator(s) == \A i \in 1..Len(s) : s[i] # "/"

\* d is the parent directory of the path f: f is d, then the separators
\* that end d's name, then a last name without separator; a parent made of
\* separators only (the root, or nothing for a bare name) keeps them.
IsParentOf(d, f) ==
  /\ Len(d) <= Len(f)
  /\ SubSeq(f, 1, Len(d)) = d
  /\ LET rest == SubSeq(f, Len(d) + 1, Len(f))
     IN  \/ AllSeparators(d) /\ NoSeparator(rest)
         \/ /\ ~AllSeparators(d)
            /\ d[Len(d)] # "/"
            /\ \E k \in 1..Len(rest) :
                 /\ AllSeparators(SubSeq(rest, 1, k))
                 /\ NoSeparator(SubSeq(rest, k + 1, Len(rest)))

\* C14: an invalidate_files call asks the engine once, for the set made of
\* every given path and the parent directory of every given path and of
\* nothing else (["a/b/c.txt"] asks for a/b/c.txt and a/b), and what it
\* returns is the number the engine reported for that set.
C14_PathsAndParentsInvalidated ==
  [][ (op' \in {"Scheduler.invalidate_files", "SchedulerSession.invalidate_files"}) =>
        LET asked == SelectSeq(calls', LAMBDA c : c.fn = "graph_invalidate")
            names == asked[1].arg
            given == {direct_filenames[k] : k \in 1..Len(direct_filenames)}
        IN  /\ Len(asked) = 1
            /\ calls'[1] = asked[1]
            /\ given \subseteq names
            /\ \A f \in given : \E d \in names : IsParentOf(d, f)
            /\ \A x \in names : x \in given \/ (\E f \in given : IsParentOf(x, f))
            /\ direct_filenames = << <<"a", "/", "b", "/", "c.txt">> >> =>
                 names = { <<"a", "/", "b", "/", "c.txt">>, <<"a", "/", "b">> }
            /\ op' = "Scheduler.invalidate_files" => IsNone(raised')
            /\ IsNone(raised') => ret' = Some(Cardinality(graph \cap names))
    ]_vars

\* invalidate_files(["a/b/c.txt"]) found the nodes of a/b/c.txt and of a/b
\* in the graph and returned 2.
C14_Witness ==
  /\ op = "Scheduler.invalidate_files"
  /\ direct_filenames = << <<"a", "/", "b", "/", "c.txt">> >>
  /\ calls = <<Call("graph_invalidate",
                    { <<"a", "/", "b", "/", "c.txt">>, <<"a", "/", "b">> })>>
  /\ ret = Some(2)
  /\ graph = { <<"a">> }

\* The step repeats the invalidate_files call just served, with the same paths.
SameCallAgain == InvalidateServed /\ op' = op

\* C15 as stated: a second invalidate_files call in a row with the same
\* paths, through the Scheduler or through the session, leaves the state
\* as the first call left it and does not fail.
C15_SecondCallLeavesStateEqual ==
  [][ SameCallAgain =>
        /\ graph' = graph
        /\ run_count' = run_count
        /\ visualized' = visualized
        /\ IsNone(raised')
    ]_vars

\* C15 amended: a second call in a row asks the engine for the same set,
\* leaves the graph as the first call left it and reports zero.  Through
\* the Scheduler, and through a session without visualization directory,
\* it changes nothing else and does not fail; through a session with a
\* visualization directory it also advances the run counter by one, asks
\* for one more visualization, and raises only that visualization's error.
C15_SecondCallLeavesGraphEqual ==
  [][ SameCallAgain =>
        /\ graph' = graph
        /\ calls'[1] = calls[1]
        /\ IF op = "SchedulerSession.invalidate_files" /\ visualize_to_dir
           THEN /\ run_count' = run_count + 1
                /\ Len(visualized') = Len(visualized) + 1
                /\ IsNone(raised') => ret' = Some(0)
                /\ IsSome(raised') => raised' = Some(VisualizeError)
           ELSE /\ run_count' = run_count
                /\ visualized' = visualized
                /\ IsNone(raised')
                /\ ret' = Some(0)
    ]_vars

\* A session with a visualization directory has served invalidate_files
\* twice; the second call found nothing left to invalidate.
C15_Witness ==
  /\ op = "SchedulerSession.invalidate_files"
  /\ visualize_to_dir
  /\ run_count = 2
  /\ visualized = <<GraphName(0), GraphName(1)>>
  /\ direct_filenames = << <<"a", "/", "b", "/", "c.txt">> >>
  /\ graph = { <<"a">> }
  /\ ret = Some(0)

\* The positions of the calls of one native function in the call log.
CallsOf(fn) == {k \in 1..Len(calls) : calls[k].fn = fn}

\* The error _assert_ruleset_valid raises for the validator's complaint.
InvalidRulesetError == Exception("ValueError", "ruleset", "Rules with errors", <<>>)

\* C16 as stated: a Scheduler whose ruleset the validator rejects is never
\* constructed, so that no session is created from it and nothing is
\* executed on it.
C16_InvalidRulesetNeverConstructed ==
  ~ruleset_valid =>
    /\ op \in {"construct", "Scheduler.__init__ raised"}
    /\ IsNone(engine)

\* C16 amended: with validate set, a Scheduler whose ruleset the validator
\* rejects is never constructed, no session is created from it and nothing
\* is executed on it; when every rule registers, construction fails with
\* the validator's complaint as a ValueError, raised after the last
\* registration call and after new_scheduler.
C16_InvalidRulesetNeverConstructedWhenValidating ==
  (validate /\ ~ruleset_valid) =>
    /\ op \in {"construct", "Scheduler.__init__ raised"}
    /\ IsNone(engine)
    /\ (op = "Scheduler.__init__ raised" /\ CallsOf("new_scheduler") # {}) =>
         /\ raised = Some(InvalidRulesetError)
         /\ calls[Len(calls)].fn = "validator_run"
         /\ \A k \in 1..Len(calls) :
              calls[k].fn \in {"new_tasks", "tasks_singleton_add", "tasks_task_begin",
                               "tasks_add_select", "tasks_add_select_variant",
                               "tasks_add_get", "tasks_task_end"}
              => \A n \in CallsOf("new_scheduler") : k < n
         /\ \A n \in CallsOf("new_scheduler") : n < Len(calls)

\* Construction failed on the validator's complaint, after a rule was
\* registered.
C16_Witness ==
  /\ op = "Scheduler.__init__ raised"
  /\ validate
  /\ ~ruleset_valid
  /\ raised = Some(InvalidRulesetError)
  /\ CallsOf("tasks_task_end") # {}
  /\ calls[Len(calls)].fn = "validator_run"

\* The (normalized output constraint, rule) pairs of the rule index.
PairsOfIndex ==
  UNION { { <<ConstraintFor(rule_index[i][1]), rule_index[i][2][j]>> :
              j \in 1..Len(rule_index[i][2]) } : i \in 1..Len(rule_index) }

\* The positions of the log at which the pair (constraint, rule) is
\* handed to the engine: a tasks_singleton_add of the rule's value, or a
\* tasks_task_begin of the rule's function, for that constraint.
RegistrationsOf(pair) ==
  {k \in 1..Len(calls) :
     IF pair[2].kind = "SingletonRule"
     THEN /\ calls[k].fn = "tasks_singleton_add"
          /\ calls[k].arg = <<[handle |-> pair[2].value],
                              [constraint |-> [key |-> pair[1]]]>>
     ELSE /\ calls[k].fn = "tasks_task_begin"
          /\ calls[k].arg = <<[function |-> [key |-> pair[2].func]],
                              [constraint |-> [key |-> pair[1]]]>>}

\* _register_rules was entered, and it returned.
RegistrationEntered == CallsOf("new_tasks") # {}
RegistrationReturned == CallsOf("new_scheduler") # {}

OpenScopes(k) ==
  Cardinality({n \in CallsOf("tasks_task_begin") : n <= k})
  - Cardinality({n \in CallsOf("tasks_task_end") : n <= k})

\* The task rule whose function a tasks_task_begin call names.
RuleBegunAt(b) ==
  CHOOSE r \in Rules : r.kind = "TaskRule" /\ calls[b].arg[1] = [function |-> [key |-> r.func]]

\* The call made for a static selector of the two recognized types.
SelectorCall(selector) ==
  IF selector.kind = "Select"
  THEN [fn |-> "tasks_add_select", arg |-> ToConstraint(selector.product)]
  ELSE [fn |-> "tasks_add_select_variant",
        arg |-> <<ToConstraint(selector.product), [utf8 |-> selector.variant_key]>>]

\* From position b on, the log holds the whole scope of the task rule begun
\* at b: its selectors in order, then its Gets in order, then the close.
WholeScopeAt(b) ==
  LET r == RuleBegunAt(b)
      s == Len(r.input_selectors)
      g == Len(r.input_gets)
  IN  /\ Len(calls) >= b + s + g + 1
      /\ \A k \in 1..s : calls[b + k] = SelectorCall(r.input_selectors[k])
      /\ \A k \in 1..g :
           /\ calls[b + s + k].fn = "tasks_add_get"
           /\ calls[b + s + k].arg = <<ToConstraint(r.input_gets[k].product),
                                       [type_id |-> [id |-> r.input_gets[k].subject]]>>
      /\ calls[b + s + g + 1].fn = "tasks_task_end"

\* At most one scope is open at a time, every close closes an open scope,
\* and every selector and Get is declared inside an open scope.
ScopesNested ==
  /\ \A k \in 0..Len(calls) : OpenScopes(k) \in {0, 1}
  /\ \A k \in 1..Len(calls) :
       calls[k].fn \in {"tasks_add_select", "tasks_add_select_variant", "tasks_add_get"}
       => OpenScopes(k) = 1

AllRecognized(selectors) ==
  \A k \in 1..Len(selectors) : selectors[k].kind \in {"Select", "SelectVariant"}

\* C19 as stated: the registration of every task rule is the bracketed
\* sequence open, selectors in order, Gets, close; scopes do not overlap,
\* nothing is declared outside a scope and every opened scope is closed.
C19_TaskScopesBracketed ==
  RegistrationEntered =>
    /\ ScopesNested
    /\ \A b \in CallsOf("tasks_task_begin") : WholeScopeAt(b)
    /\ OpenScopes(Len(calls)) = 0

\* C19 amended: scopes do not overlap and nothing is declared outside a
\* scope; the registration of a task rule whose selectors are all Select or
\* SelectVariant is the whole bracketed sequence, and its scope is closed.
\* A selector of another type ends the registration with a ValueError and
\* with the scope of its rule still open, after the selectors before it.
C19_TaskScopesBracketedIfRecognized ==
  RegistrationEntered =>
    /\ ScopesNested
    /\ \A b \in CallsOf("tasks_task_begin") :
         LET r == RuleBegunAt(b)
         IN  IF AllRecognized(r.input_selectors)
             THEN WholeScopeAt(b)
             ELSE LET bad == CHOOSE k \in 1..Len(r.input_selectors) :
                               /\ r.input_selectors[k].kind \notin {"Select", "SelectVariant"}
                               /\ AllRecognized(SubSeq(r.input_selectors, 1, k - 1))
                  IN  /\ Len(calls) = b + bad - 1
                      /\ \A k \in 1..(bad - 1) :
                           calls[b + k] = SelectorCall(r.input_selectors[k])
                      /\ OpenScopes(Len(calls)) = 1
                      /\ op = "Scheduler.__init__ raised"
                      /\ raised = Some(UnrecognizedSelector(r.input_selectors[bad]))
    /\ (IsNone(raised) \/ RegistrationReturned) => OpenScopes(Len(calls)) = 0

\* A Scheduler was constructed over an index whose task rule with a Select,
\* a SelectVariant and a Get is registered between two other registrations.
C19_Witness ==
  /\ op = "Scheduler"
  /\ \E b \in CallsOf("tasks_task_begin") :
       /\ Len(RuleBegunAt(b).input_selectors) = 2
       /\ Len(RuleBegunAt(b).input_gets) = 1
       /\ WholeScopeAt(b)
       /\ calls[b - 1].fn = "tasks_singleton_add"
       /\ CallsOf("tasks_singleton_add") \ {b - 1} # {}

\* The step is a schedule call whose engine run gave no fault and only
\* recognized tags, or an invalidate_files call of the session: the calls
\* that get as far as _maybe_visualize.
ReachesVisualize ==
  \/ op' = "SchedulerSession.invalidate_files"
  \/ /\ op' = "schedule"
     /\ IsNone(The(engine').fault)
     /\ \A k \in 1..Len(The(engine').nodes) : The(engine').nodes[k].state_tag \in {1, 2, 3, 4}

\* C20 as stated: with a visualization directory configured the run counter
\* grows by exactly one on every schedule and invalidate_files call of the
\* session, and without one it never changes.
C20_CounterGrowsOnEveryCall ==
  [][ run_count' = run_count + (IF visualize_to_dir THEN 1 ELSE 0) ]_vars

\* C20 amended: the run counter never decreases; with a visualization
\* directory configured it grows by exactly one on every invalidate_files
\* call and on every schedule call whose engine run returns its roots, and
\* otherwise it is unchanged; every such call asks for one visualization,
\* the n-th visualization asked for is numbered n - 1 (graph.000.dot
\* first), and no number is used twice.
C20_CounterGrowsWithEachVisualization ==
  [][ /\ run_count' >= run_count
      /\ run_count' = run_count + (IF visualize_to_dir /\ ReachesVisualize THEN 1 ELSE 0)
      /\ Len(visualized') = run_count'
      /\ Len(visualized') >= 1 => visualized'[1] = "graph.000.dot"
      /\ \A n \in 1..Len(visualized') : visualized'[n] = GraphName(n - 1)
      /\ \A m, n \in 1..Len(visualized') : visualized'[m] = visualized'[n] => m = n
      /\ Visualizations(calls') = SubSeq(visualized', Len(visualized) + 1, Len(visualized'))
    ]_vars

\* A session with a visualization directory has asked for three
\* visualizations, the last one on an invalidate_files call.
C20_Witness ==
  /\ visualize_to_dir
  /\ run_count = 3
  /\ visualized = <<"graph.000.dot", "graph.001.dot", "graph.002.dot">>
  /\ op = "SchedulerSession.invalidate_files"
  /\ IsSome(engine)

\* The threads whose call has stored its increment of the run counter, and
\* those whose call has asked the engine for its visualization.
Stored == {t \in Threads : /\ IsSome(local[t].loaded)
                           /\ pc[t] \in {"visualize_graph_to_file", "return", "done"}}
Written == {t \in Stored : pc[t] \in {"return", "done"}}

\* C21: the run counter and the visualization numbering are not safe for
\* two threads calling schedule or invalidate_files on one session with a
\* visualization directory configured. The counter is read for the name,
\* loaded and stored in separate steps, so that: every call that gets to
\* _maybe_visualize writes one visualization; the counter is at least 1 and
\* at most the number of calls that stored it; it equals that number exactly
\* when the calls loaded different values; and when it is lower than the
\* number of visualizations written, the two visualizations carry the same
\* number (graph.000.dot twice). The witness reaches that interleaving.
C21_CounterLosesOverlappingIncrements ==
  /\ Len(visualized) = Cardinality(Written)
  /\ \A n \in 1..Len(visualized) : visualized[n] \in {GraphName(0), GraphName(1)}
  /\ Stored = {} => run_count = 0
  /\ Stored # {} => run_count \in 1..Cardinality(Stored)
  /\ run_count = Cardinality(Stored)
       <=> \A t, u \in Stored : local[t].loaded = local[u].loaded => t = u
  /\ \A t \in Stored : local[t].name \in {Some(GraphName(n)) : n \in 0..The(local[t].loaded)}
  /\ (Written = Threads /\ run_count < Len(visualized))
       => /\ run_count = 1
          /\ visualized = <<GraphName(0), GraphName(0)>>
  /\ ~visualize_to_dir => run_count = 0 /\ visualized = <<>>

\* Two threads have called schedule on the session at the same time with a
\* visualization directory configured and both calls have returned their
\* roots: both wrote graph.000.dot and the counter is 1 after two
\* visualizations.
C21_Witness ==
  /\ visualize_to_dir
  /\ \A t \in Threads : /\ pc[t] = "done"
                        /\ local[t].call = "schedule"
                        /\ IsNone(local[t].raised)
                        /\ IsSome(local[t].ret)
                        /\ local[t].name = Some("graph.000.dot")
  /\ visualized = <<"graph.000.dot", "graph.000.dot">>
  /\ run_count = 1
  /\ run_count < Len(visualized)

\* Thread t is inside _run_and_return_roots, and thread t's call of
\* _run_and_return_roots has returned or raised.
RunInProgress(t) == pc[t] \in {"convert", "nodes_destroy"}
RunEnded(t) ==
  /\ local[t].call = "schedule"
  /\ pc[t] \notin {"idle", "scheduler_execute", "convert", "nodes_destroy"}

\* The positions in thread t's log of native calls of the calls of fn.
ThreadCallsOf(t, fn) == {n \in 1..Len(local[t].calls) : local[t].calls[n].fn = fn}

\* C22: every engine execution whose raw result _run_and_return_roots
\* obtained is followed by exactly one nodes_destroy of that raw result
\* before the call returns or raises, both when every outcome was converted
\* and when the conversion stopped on an unrecognized state tag, and no
\* raw root is read after the release; an execution the engine raised out
\* of obtained no raw result and releases none.
C22_RawResultReleasedOnce ==
  \A t \in Threads :
    LET h == raw_heap[t]
    IN  /\ h.stale_reads = 0
        /\ h.destroyed <= h.obtained
        /\ h.live <=> (h.obtained = 1 /\ h.destroyed = 0)
        /\ h.live => RunInProgress(t)
        /\ h.obtained = Cardinality({n \in ThreadCallsOf(t, "scheduler_execute") :
                                       IsSome(local[t].raw_roots)})
        /\ h.destroyed = Cardinality(ThreadCallsOf(t, "nodes_destroy"))
        /\ \A n \in ThreadCallsOf(t, "nodes_destroy") :
             /\ n > 1
             /\ local[t].calls[n - 1].fn = "scheduler_execute"
             /\ local[t].calls[n].arg = The(local[t].raw_roots)
        /\ RunEnded(t) =>
             /\ h.destroyed = h.obtained
             /\ IsNone(local[t].raw_roots) =>
                  /\ h.obtained = 0
                  /\ local[t].raised \in {Some(FatalError), Some(OtherFault)}
             /\ IsSome(local[t].raw_roots) =>
                  LET nodes == The(local[t].raw_roots)
                      c     == ConvertRoots(nodes, 1, <<>>)
                  IN  /\ h.obtained = 1
                      /\ h.destroyed = 1
                      /\ local[t].roots = c.roots
                      /\ IsSome(c.raised) => local[t].raised = c.raised
                      /\ IsSome(c.raised) <=> local[t].k < Len(nodes)

\* One thread's conversion stopped on an unrecognized tag at the second of
\* two raw roots and the call raised; the other thread's conversion went
\* through both raw roots and the call returned; each released its raw result
\* once.
C22_Witness ==
  /\ pc["t1"] = "done"
  /\ local["t1"].call = "schedule"
  /\ IsSome(local["t1"].raw_roots)
  /\ Len(The(local["t1"].raw_roots)) = 2
  /\ local["t1"].k = 1
  /\ local["t1"].raised = Some(UnrecognizedState(The(local["t1"].raw_roots)[2]))
  /\ raw_heap["t1"] = [obtained |-> 1, live |-> FALSE, destroyed |-> 1, stale_reads |-> 0]
  /\ pc["t2"] = "done"
  /\ local["t2"].call = "schedule"
  /\ local["t2"].k = 2
  /\ IsNone(local["t2"].raised)
  /\ IsSome(local["t2"].ret)
  /\ raw_heap["t2"] = [obtained |-> 1, live |-> FALSE, destroyed |-> 1, stale_reads |-> 0]

====
